---- MODULE Spec2Model ----
(***************************************************************************)
(* pyRecorder: the recording session controller (recorder.py,              *)
(* ScreenRecorder), its capture loop thread (_record_video) and the        *)
(* loopback audio component (loopback_audio.py, WindowsAudioLoopback).     *)
(*                                                                         *)
(* One control thread (the Tk main loop) calls the ScreenRecorder methods  *)
(* one at a time; every method is split into the steps at which another    *)
(* thread can observe its effects.  Capture loop threads and the audio     *)
(* callback interleave freely with those steps.                            *)
(*                                                                         *)
(* The region selection overlay (region_selector.py, RegionSelector) is    *)
(* a second machine with a specification of its own, SpecSelector: the     *)
(* GUI makes a selector, opens the overlay and the user's mouse and key    *)
(* events arrive one at a time until the overlay is destroyed.             *)
(*                                                                         *)
(* Python's None is the empty tuple; a region is <<left, top, width,       *)
(* height>>, a size is <<width, height>>, a file name is a tuple of its    *)
(* segments ("a.mp4" is <<"a", ".mp4">>), a writer or thread reference is  *)
(* an index into writers / threads with 0 for None.                        *)
(***************************************************************************)
EXTENDS Integers, Sequences, FiniteSets, TLC

\* ---------------------------------------------------------------- bounds
MaxCalls == 3       \* calls of the control thread
MaxStarts == 2      \* calls of start_recording among them
MaxIters == 1       \* iterations begun by all capture loops together
MaxBlocks == 1      \* audio blocks delivered to the callback
MaxSelections == 2  \* RegionSelector objects made by the GUI

\* ---------------------------------------------------------------- inputs
None == <<>>

Lefts == {0}
Tops == {0}
Widths == {50, 60}
Heights == {50}

Filenames == {<<"a", ".mp4">>, <<"b", ".avi">>}

\* canvas coordinates of the mouse events, and the monitor offsets
Xs == {0, 49, 50, 120}
Ys == {0, 49, 60}
OffsetsX == {-100, 0}
OffsetsY == {0}

\* the slip of filling width and height the wrong way round
MakeRegionSwapped(x, y, width, height) == <<x, y, height, width>>

\* the dict built at recorder.py:90 and :191
MakeRegion(x, y, width, height) == <<x, y, width, height>>

RegionSize(r) == <<r[3], r[4]>>

Regions == {MakeRegion(x, y, w, h) : x \in Lefts, y \in Tops, w \in Widths, h \in Heights}

\* self.output_filename.replace('.mp4', '_final.mp4'): every occurrence of
\* the segment is replaced, a name without it is returned as it is
RECURSIVE ReplaceMp4(_)
ReplaceMp4(f) ==
    IF f = <<>> THEN <<>>
    ELSE IF Head(f) = ".mp4" THEN <<"_final", ".mp4">> \o ReplaceMp4(Tail(f))
    ELSE <<Head(f)>> \o ReplaceMp4(Tail(f))

\* os.path.join(tempdir, splitext(basename(output_file))[0] + "_audio.wav")
AudioFileOf(f) == <<"tmp">> \o SubSeq(f, 1, Len(f) - 1) \o <<"_audio.wav">>

\* ---------------------------------------------------------------- state
VARIABLES
    recording,           \* ScreenRecorder.recording
    video_writer,        \* ScreenRecorder.video_writer: index into writers, 0 = None
    audio_recorder,      \* ScreenRecorder.audio_recorder is not None
    audio_type,          \* ScreenRecorder.audio_type
    video_thread,        \* ScreenRecorder.video_thread: index into threads, 0 = None
    output_filename,     \* ScreenRecorder.output_filename
    record_region,       \* ScreenRecorder.record_region
    current_video_size,  \* ScreenRecorder.current_video_size
    region_lock,         \* holder of region_lock: 0 free, n capture thread n
    video_writer_lock,   \* holder of video_writer_lock
    audio_recording,     \* WindowsAudioLoopback.recording
    audio_data,          \* WindowsAudioLoopback.audio_data
    audio_file,          \* WindowsAudioLoopback.audio_file
    stream,              \* WindowsAudioLoopback.stream is an open, started stream
    writers,             \* the cv2.VideoWriter objects created so far
    threads,             \* the capture loop threads created so far
    fs,                  \* the files that exist
    pc,                  \* position of the control thread
    args,                \* arguments of the call in progress
    locals,              \* locals of the call in progress
    ret,                 \* <<method, value>> of the last call that returned
    hist,                \* history: counters and what the calls were given
    root,                \* RegionSelector.root: "none", "open" or "destroyed"
    start_x,             \* RegionSelector.start_x: <<x>>, or None
    start_y,             \* RegionSelector.start_y: <<y>>, or None
    rect_id,             \* RegionSelector.rect_id is not None
    selected_region,     \* RegionSelector.selected_region
    sel,                 \* history of the selector: events and what select_region returned
    audio_status_label   \* PyRecorderGUI.audio_status_label: the text setup_ui gave it

vars == <<recording, video_writer, audio_recorder, audio_type, video_thread,
          output_filename, record_region, current_video_size, region_lock,
          video_writer_lock, audio_recording, audio_data, audio_file, stream,
          writers, threads, fs, pc, args, locals, ret, hist,
          root, start_x, start_y, rect_id, selected_region, sel,
          audio_status_label>>

recorderVars == <<recording, video_writer, audio_recorder, audio_type, video_thread,
                  output_filename, record_region, current_video_size, region_lock,
                  video_writer_lock, audio_recording, audio_data, audio_file, stream,
                  writers, threads, fs, pc, args, locals, ret, hist>>
selectorVars == <<root, start_x, start_y, rect_id, selected_region, sel>>
guiVars == <<audio_status_label>>

recorderFields == <<recording, video_writer, audio_recorder, audio_type, video_thread,
                    output_filename, record_region, current_video_size>>
lockVars == <<region_lock, video_writer_lock>>
audioVars == <<audio_recording, audio_data, audio_file, stream>>


NoArgs == [region |-> None, filename |-> None, given |-> None]
NoLocals == [audio_file |-> None, final_filename |-> None, ticket |-> 0]

NoHist == [device |-> FALSE,      \* a loopback device was there at construction
           calls |-> 0, starts |-> 0, iters |-> 0, blocks |-> 0,
           written |-> <<>>,       \* <<x, y, width, height>> given to the call that wrote record_region
           region_ver |-> 0,       \* number of the call that wrote record_region
           acked |-> 0,            \* number of the last start/update call that returned True
           before |-> <<>>,        \* the stored fields when the call in progress began
           session |-> <<>>,       \* <<region, filename>> of the last start that returned True
           given |-> <<>>,         \* filename of the last start_recording call
           opened |-> "",          \* what opening the writer did in that call
           spawned |-> 0,          \* capture loops spawned by the last start_recording call
           audio_started |-> "",   \* what audio did in the last start_recording call
           audio_outcome |-> "",   \* how opening the input stream went, until that call returns
           audio_starts |-> 0,     \* audio captures started since construction
           mux |-> "",             \* "", "ok" or "failed": the mux of the last stop_recording
           removed |-> {},         \* files removed by the last stop_recording
           fs_before |-> {},       \* the files when the last stop_recording began
           last_stop |-> <<>>,     \* <<value>> returned by the last stop_recording
           prev_stop |-> <<>>,     \* <<value>> returned by the stop_recording before it
           join_timeout |-> FALSE, \* the last join returned with the loop alive
           wrote_released |-> FALSE,
           wrote_none |-> FALSE]

NoSel == [selections |-> 0,     \* RegionSelector objects made so far
          pressed |-> FALSE,    \* the mouse button is down on the canvas
          event |-> "",         \* the last event handled
          drag |-> <<0, 0>>,    \* <<width, height>> of the last release
          last |-> <<>>,        \* the rectangle of the last release, in screen coordinates
          valid |-> FALSE,      \* a release of this selection stored a region
          returned |-> <<>>]    \* <<value>> returned by select_region

\* the fields a caller can look at: recorder.py:39-47
StoredFields == <<recording, video_writer, output_filename, record_region, current_video_size>>

\* ---------------------------------------------------------------- __init__
\* the slip of keeping the audio recorder whatever is_available said
InitAudioRecorderKept(available) == TRUE

\* recorder.py:52-65: keep the audio recorder only if a loopback device is there
InitAudioRecorder(available) == available

InitAudioType(available) ==
    IF available THEN "Windows system audio (loopback)" ELSE "none"

\* main.py:129-135: the text of the audio status label setup_ui builds from the
\* recorder's audio_type
AudioStatus(type) ==
    IF type = "system/microphone"
    THEN "Audio: Available (System/Microphone)"
    ELSE "Audio: Disabled"

Init ==
    /\ recording = FALSE
    /\ video_writer = 0
    /\ video_thread = 0
    /\ output_filename = None
    /\ record_region = None
    /\ current_video_size = None
    /\ region_lock = 0
    /\ video_writer_lock = 0
    /\ \E available \in BOOLEAN :
          /\ audio_recorder = InitAudioRecorder(available)
          /\ audio_type = InitAudioType(available)
          /\ hist = [NoHist EXCEPT !.device = available]
    /\ audio_recording = FALSE
    /\ audio_data = <<>>
    /\ audio_file = None
    /\ stream = "none"
    /\ writers = <<>>
    /\ threads = <<>>
    /\ fs = {}
    /\ pc = "idle"
    /\ args = NoArgs
    /\ locals = NoLocals
    /\ ret = <<"none">>
    /\ root = "none"
    /\ start_x = None
    /\ start_y = None
    /\ rect_id = FALSE
    /\ selected_region = None
    /\ sel = NoSel
    /\ audio_status_label = AudioStatus(audio_type)

\* ---------------------------------------------------------------- audio
AudioStartOutcomes == {"ok", "no_device", "no_channels", "create_error", "start_error"}

\* WindowsAudioLoopback.start_recording, loopback_audio.py:93-149
AudioStartResult(outcome) == ~audio_recording /\ outcome = "ok"

\* the slip of an except branch that leaves the flag set (no line 147)
AudioStartFlagLeft(filename, outcome) ==
    IF audio_recording \/ outcome \in {"no_device", "no_channels"}
    THEN UNCHANGED audioVars
    ELSE /\ audio_file' = AudioFileOf(filename)
         /\ audio_data' = <<>>
         /\ audio_recording' = TRUE
         /\ stream' = CASE outcome = "ok" -> "started"
                        [] outcome = "start_error" -> "created"
                        [] OTHER -> stream

AudioStart(filename, outcome) ==
    IF audio_recording \/ outcome \in {"no_device", "no_channels"}
    THEN UNCHANGED audioVars
    ELSE /\ audio_file' = AudioFileOf(filename)
         /\ audio_data' = <<>>
         /\ audio_recording' = (outcome = "ok")
         /\ stream' = CASE outcome = "ok" -> "started"
                        [] outcome = "start_error" -> "created"
                        [] OTHER -> stream

\* the slip of a callback without the test of the flag (no line 188)
AudioCallbackUnguarded ==
    /\ stream = "started"
    /\ hist.blocks < MaxBlocks
    /\ hist' = [hist EXCEPT !.blocks = @ + 1]
    /\ audio_data' = Append(audio_data, hist.blocks + 1)
    /\ UNCHANGED <<recorderFields, lockVars, audio_recording, audio_file, stream,
                   writers, threads, fs, pc, args, locals, ret>>
    /\ UNCHANGED <<selectorVars, guiVars>>

\* WindowsAudioLoopback._audio_callback, loopback_audio.py:183-190
AudioCallback ==
    /\ stream = "started"
    /\ hist.blocks < MaxBlocks
    /\ hist' = [hist EXCEPT !.blocks = @ + 1]
    /\ audio_data' = IF audio_recording THEN Append(audio_data, hist.blocks + 1) ELSE audio_data
    /\ UNCHANGED <<recorderFields, lockVars, audio_recording, audio_file, stream,
                   writers, threads, fs, pc, args, locals, ret>>
    /\ UNCHANGED <<selectorVars, guiVars>>

\* WindowsAudioLoopback._save_audio_data, loopback_audio.py:192-214
SaveAudioData(files, saved) ==
    IF audio_data # <<>> /\ audio_file # None /\ saved THEN files \cup {audio_file} ELSE files

\* WindowsAudioLoopback.stop_recording, loopback_audio.py:151-181. The flag is
\* cleared at :156 before the stream is stopped at :160-163, and the stream's thread
\* may deliver a block in between, so the call is two steps: AudioStopFlag, then
\* AudioStop with the save
AudioStopFlag ==
    /\ audio_recording' = FALSE
    /\ UNCHANGED <<audio_data, audio_file, stream>>

AudioStopFiles(saved) ==
    IF audio_data # <<>> /\ audio_file # None
    THEN SaveAudioData(fs, saved) ELSE fs

AudioStopResult(saved) ==
    IF audio_data # <<>> /\ audio_file # None
       /\ audio_file \in AudioStopFiles(saved)
    THEN audio_file ELSE None

AudioStop(saved) ==
    /\ fs' = AudioStopFiles(saved)
    /\ stream' = "none"
    /\ UNCHANGED <<audio_recording, audio_data, audio_file>>

\* WindowsAudioLoopback.combine_with_video, loopback_audio.py:216-243: what the
\* ffmpeg process did; a timeout or any other exception ends in the except branch
CombineOutcomes == {"ok", "nonzero_exit", "no_output", "timeout"}

\* the files after the ffmpeg run (-y overwrites output_file)
CombineFiles(files, output_file, outcome) ==
    IF outcome = "ok" THEN files \cup {output_file} ELSE files

\* loopback_audio.py:234: returncode == 0 and os.path.exists(output_file)
CombineResult(files, output_file, outcome) ==
    /\ outcome \in {"ok", "no_output"}
    /\ output_file \in CombineFiles(files, output_file, outcome)

\* ---------------------------------------------------------------- objects
\* cv2.VideoWriter(filename, fourcc, fps, (width, height)), recorder.py:82
NewWriter(filename, size, opened) ==
    [file |-> filename, size |-> size, opened |-> opened, released |-> FALSE, frames |-> <<>>]

\* threading.Thread(target=self._record_video), recorder.py:106-108
NewThread ==
    [pc |-> "loop", current_region |-> None, target_size |-> None, frame |-> None,
     seq |-> 0, snap_ver |-> 0, snap_ack |-> 0, snap_given |-> None]

\* a loop between iterations, or ended: its locals are dead
Parked(position) == [NewThread EXCEPT !.pc = position]

Alive(t) == t # 0 /\ threads[t].pc \notin {"done", "crashed"}

BeginCall == [hist EXCEPT !.before = StoredFields, !.calls = @ + 1]

\* ---------------------------------------------------------------- start_recording
\* cv2.VideoWriter(...) at recorder.py:82 gives an opened writer, a writer that
\* is not opened, or raises
OpenOutcomes == {"opened", "not_opened", "raised"}

\* recorder.py:78-86 and the except branch at :113-116: the filename is stored,
\* then the writer, then isOpened decides
StartOpen(x, y, width, height, filename, outcome) ==
    /\ pc = "idle"
    /\ hist.calls < MaxCalls
    /\ hist.starts < MaxStarts
    /\ output_filename' = filename
    /\ IF outcome = "raised"
       THEN UNCHANGED <<writers, video_writer>>
       ELSE /\ writers' = Append(writers, NewWriter(filename, <<width, height>>,
                                                    outcome = "opened"))
            /\ video_writer' = Len(writers) + 1
    /\ fs' = IF outcome = "opened" THEN fs \cup {filename} ELSE fs
    /\ recording' = IF outcome = "raised" THEN FALSE ELSE recording
    /\ IF outcome = "opened"
       THEN /\ pc' = "start_region"
            /\ args' = [region |-> MakeRegion(x, y, width, height), filename |-> filename,
                        given |-> <<x, y, width, height>>]
            /\ locals' = [NoLocals EXCEPT !.ticket = hist.calls + 1]
            /\ ret' = ret
       ELSE /\ pc' = "idle"
            /\ args' = NoArgs
            /\ locals' = NoLocals
            /\ ret' = <<"start", FALSE>>
    /\ hist' = [BeginCall EXCEPT !.starts = @ + 1,
                                 !.given = filename,
                                 !.opened = outcome,
                                 !.spawned = 0,
                                 !.audio_started = "",
                                 !.audio_outcome = ""]
    /\ UNCHANGED <<audio_recorder, audio_type, video_thread, record_region,
                   current_video_size, lockVars, audioVars, threads>>
    /\ UNCHANGED <<selectorVars, guiVars>>

\* recorder.py:89-90: the whole with-block, entered when the lock is free
StartRegion ==
    /\ pc = "start_region"
    /\ region_lock = 0
    /\ record_region' = args.region
    /\ hist' = [hist EXCEPT !.region_ver = locals.ticket, !.written = args.given]
    /\ pc' = "start_size"
    /\ UNCHANGED <<recording, video_writer, audio_recorder, audio_type, video_thread,
                   output_filename, current_video_size, lockVars, audioVars,
                   writers, threads, fs, args, locals, ret>>
    /\ UNCHANGED <<selectorVars, guiVars>>

\* recorder.py:91-92: the whole with-block
StartSize ==
    /\ pc = "start_size"
    /\ video_writer_lock = 0
    /\ current_video_size' = RegionSize(args.region)
    /\ pc' = "start_flag"
    /\ UNCHANGED <<recording, video_writer, audio_recorder, audio_type, video_thread,
                   output_filename, record_region, lockVars, audioVars,
                   writers, threads, fs, args, locals, ret, hist>>
    /\ UNCHANGED <<selectorVars, guiVars>>

\* recorder.py:93
StartFlag ==
    /\ pc = "start_flag"
    /\ recording' = TRUE
    /\ pc' = "start_audio"
    /\ UNCHANGED <<video_writer, audio_recorder, audio_type, video_thread, output_filename,
                   record_region, current_video_size, lockVars, audioVars,
                   writers, threads, fs, args, locals, ret, hist>>
    /\ UNCHANGED <<selectorVars, guiVars>>

\* recorder.py:96-103: the result of the audio start is only printed
StartAudio(outcome) ==
    /\ pc = "start_audio"
    /\ IF audio_recorder
       THEN /\ AudioStart(args.filename, outcome)
            /\ hist' = [hist EXCEPT
                 !.audio_started = IF AudioStartResult(outcome) THEN "started" ELSE "failed",
                 !.audio_outcome = IF audio_recording THEN "busy" ELSE outcome,
                 !.audio_starts = IF AudioStartResult(outcome) THEN @ + 1 ELSE @]
       ELSE /\ outcome = "no_device"
            /\ hist' = [hist EXCEPT !.audio_started = "absent"]
            /\ UNCHANGED audioVars
    /\ pc' = "start_thread"
    /\ UNCHANGED <<recorderFields, lockVars, writers, threads, fs, args, locals, ret>>
    /\ UNCHANGED <<selectorVars, guiVars>>

\* the slip of spawning the loop only in the branch where audio started
StartThreadOnlyWithAudio ==
    /\ pc = "start_thread"
    /\ IF hist.audio_started = "started"
       THEN /\ threads' = Append(threads, NewThread)
            /\ video_thread' = Len(threads) + 1
            /\ hist' = [hist EXCEPT !.spawned = @ + 1,
                                    !.acked = locals.ticket,
                                    !.session = <<args.region, args.filename>>]
            /\ ret' = <<"start", TRUE>>
            /\ recording' = recording
       ELSE /\ UNCHANGED <<threads, video_thread, hist>>
            /\ recording' = FALSE
            /\ ret' = <<"start", FALSE>>
    /\ pc' = "idle"
    /\ args' = NoArgs
    /\ locals' = NoLocals
    /\ UNCHANGED <<video_writer, audio_recorder, audio_type, output_filename,
                   record_region, current_video_size, lockVars, audioVars, writers, fs>>
    /\ UNCHANGED <<selectorVars, guiVars>>

\* recorder.py:106-111
StartThread ==
    /\ pc = "start_thread"
    /\ threads' = Append(threads, NewThread)
    /\ video_thread' = Len(threads) + 1
    /\ hist' = [hist EXCEPT !.spawned = @ + 1,
                            !.acked = locals.ticket,
                            !.session = <<args.region, args.filename>>,
                            !.audio_outcome = ""]
    /\ ret' = <<"start", TRUE>>
    /\ pc' = "idle"
    /\ args' = NoArgs
    /\ locals' = NoLocals
    /\ UNCHANGED <<recording, video_writer, audio_recorder, audio_type, output_filename,
                   record_region, current_video_size, lockVars, audioVars, writers, fs>>
    /\ UNCHANGED <<selectorVars, guiVars>>

\* ---------------------------------------------------------------- update_recording_region
\* the slip of leaving the guard out
UpdateAllowedAlways == TRUE

\* recorder.py:184: the guard of the method
UpdateAllowed == recording

\* recorder.py:184-186
UpdateCheck(x, y, width, height) ==
    /\ pc = "idle"
    /\ hist.calls < MaxCalls
    /\ IF UpdateAllowed
       THEN /\ pc' = "update_region"
            /\ args' = [region |-> MakeRegion(x, y, width, height), filename |-> None,
                        given |-> <<x, y, width, height>>]
            /\ locals' = [NoLocals EXCEPT !.ticket = hist.calls + 1]
            /\ ret' = ret
       ELSE /\ pc' = "idle"
            /\ args' = NoArgs
            /\ locals' = NoLocals
            /\ ret' = <<"update", FALSE>>
    /\ hist' = BeginCall
    /\ UNCHANGED <<recorderFields, lockVars, audioVars, writers, threads, fs>>
    /\ UNCHANGED <<selectorVars, guiVars>>

\* recorder.py:190-191: the whole with-block, entered when the lock is free
UpdateRegion ==
    /\ pc = "update_region"
    /\ region_lock = 0
    /\ record_region' = args.region
    /\ hist' = [hist EXCEPT !.region_ver = locals.ticket, !.written = args.given]
    /\ pc' = "update_size"
    /\ UNCHANGED <<recording, video_writer, audio_recorder, audio_type, video_thread,
                   output_filename, current_video_size, lockVars, audioVars,
                   writers, threads, fs, args, locals, ret>>
    /\ UNCHANGED <<selectorVars, guiVars>>

\* the slip of re-targeting the stream to the new region's size
SizeAfterUpdateRetargets(region) == RegionSize(region)

\* recorder.py:195-197: current_video_size is read for the message, not written
SizeAfterUpdate(region) == current_video_size

\* recorder.py:194-199
UpdateSize ==
    /\ pc = "update_size"
    /\ video_writer_lock = 0
    /\ current_video_size' = SizeAfterUpdate(args.region)
    /\ hist' = [hist EXCEPT !.acked = locals.ticket]
    /\ ret' = <<"update", TRUE>>
    /\ pc' = "idle"
    /\ args' = NoArgs
    /\ locals' = NoLocals
    /\ UNCHANGED <<recording, video_writer, audio_recorder, audio_type, video_thread,
                   output_filename, record_region, lockVars, audioVars,
                   writers, threads, fs>>
    /\ UNCHANGED <<selectorVars, guiVars>>

\* ---------------------------------------------------------------- get_current_region
\* recorder.py:205-208: the whole with-block, entered when the lock is free
GetRegion ==
    /\ pc = "idle"
    /\ hist.calls < MaxCalls
    /\ region_lock = 0
    /\ ret' = <<"get", record_region, hist.region_ver, hist.acked, hist.written>>
    /\ hist' = BeginCall
    /\ UNCHANGED <<recorderFields, lockVars, audioVars, writers, threads, fs,
                   pc, args, locals>>
    /\ UNCHANGED <<selectorVars, guiVars>>

\* ---------------------------------------------------------------- stop_recording
\* recorder.py:126
StopFlag ==
    /\ pc = "idle"
    /\ hist.calls < MaxCalls
    /\ recording' = FALSE
    /\ pc' = "stop_join"
    /\ hist' = [BeginCall EXCEPT !.mux = "",
                                 !.removed = {},
                                 !.fs_before = fs,
                                 !.join_timeout = FALSE]
    /\ UNCHANGED <<video_writer, audio_recorder, audio_type, video_thread, output_filename,
                   record_region, current_video_size, lockVars, audioVars,
                   writers, threads, fs, args, locals, ret>>
    /\ UNCHANGED <<selectorVars, guiVars>>

\* recorder.py:129-130: the loop is not alive, or join returns because it ended
StopJoined ==
    /\ pc = "stop_join"
    /\ ~Alive(video_thread)
    /\ pc' = "stop_audio"
    /\ UNCHANGED <<recorderFields, lockVars, audioVars, writers, threads, fs,
                   args, locals, ret, hist>>
    /\ UNCHANGED <<selectorVars, guiVars>>

\* the slip of a join without a timeout
StopJoinUnbounded ==
    /\ pc = "stop_join"
    /\ ~Alive(video_thread)
    /\ pc' = "stop_audio"
    /\ hist' = [hist EXCEPT !.join_timeout = FALSE]
    /\ UNCHANGED <<recorderFields, lockVars, audioVars, writers, threads, fs,
                   args, locals, ret>>
    /\ UNCHANGED <<selectorVars, guiVars>>

\* recorder.py:130: join(timeout=5) returns with the loop still alive
StopJoinTimeout ==
    /\ pc = "stop_join"
    /\ Alive(video_thread)
    /\ pc' = "stop_audio"
    /\ hist' = [hist EXCEPT !.join_timeout = TRUE]
    /\ UNCHANGED <<recorderFields, lockVars, audioVars, writers, threads, fs,
                   args, locals, ret>>
    /\ UNCHANGED <<selectorVars, guiVars>>

\* recorder.py:133-134 into loopback_audio.py:153-156: without a recorder, or with
\* one that is not recording, audio_file_path is None
StopAudioFlag ==
    /\ pc = "stop_audio"
    /\ IF audio_recorder /\ audio_recording
       THEN /\ AudioStopFlag
            /\ pc' = "stop_audio_close"
            /\ UNCHANGED locals
       ELSE /\ UNCHANGED audioVars
            /\ pc' = "stop_release"
            /\ locals' = [locals EXCEPT !.audio_file = None]
    /\ UNCHANGED <<recorderFields, lockVars, writers, threads, fs, args, ret, hist>>
    /\ UNCHANGED <<selectorVars, guiVars>>

\* recorder.py:134 out of loopback_audio.py:158-177
StopAudio(saved) ==
    /\ pc = "stop_audio_close"
    /\ AudioStop(saved)
    /\ locals' = [locals EXCEPT !.audio_file = AudioStopResult(saved)]
    /\ pc' = "stop_release"
    /\ UNCHANGED <<recorderFields, lockVars, writers, threads, args, ret, hist>>
    /\ UNCHANGED <<selectorVars, guiVars>>

\* recorder.py:138-139
StopRelease ==
    /\ pc = "stop_release"
    /\ IF video_writer # 0
       THEN /\ writers' = [writers EXCEPT ![video_writer].released = TRUE]
            /\ pc' = "stop_clear"
       ELSE /\ writers' = writers
            /\ pc' = "stop_mux"
    /\ UNCHANGED <<recorderFields, lockVars, audioVars, threads, fs, args, locals, ret, hist>>
    /\ UNCHANGED <<selectorVars, guiVars>>

\* recorder.py:140
StopClear ==
    /\ pc = "stop_clear"
    /\ video_writer' = 0
    /\ pc' = "stop_mux"
    /\ UNCHANGED <<recording, audio_recorder, audio_type, video_thread, output_filename,
                   record_region, current_video_size, lockVars, audioVars,
                   writers, threads, fs, args, locals, ret, hist>>
    /\ UNCHANGED <<selectorVars, guiVars>>

\* the slip of cleaning up whatever the mux said
CleanUpAlways(files, combine_success, video, audio) == files \ {video, audio}

\* recorder.py:153-159: the os.remove calls of the success branch
CleanUp(files, combine_success, video, audio) ==
    IF combine_success THEN files \ {video, audio} ELSE files

\* recorder.py:143
MuxWanted == locals.audio_file # None /\ locals.audio_file \in fs /\ output_filename # None

\* recorder.py:143-168
StopMux(outcome) ==
    /\ pc = "stop_mux"
    /\ IF MuxWanted
       THEN LET final_filename == ReplaceMp4(output_filename)
                combine_success == CombineResult(fs, final_filename, outcome)
                combined == CombineFiles(fs, final_filename, outcome)
                value == IF combine_success THEN final_filename ELSE output_filename
            IN  /\ fs' = CleanUp(combined, combine_success, output_filename, locals.audio_file)
                /\ ret' = <<"stop", value>>
                /\ hist' = [hist EXCEPT !.mux = IF combine_success THEN "ok" ELSE "failed",
                                        !.removed = combined \ fs',
                                        !.prev_stop = hist.last_stop,
                                        !.last_stop = <<value>>]
       ELSE /\ outcome = "ok"
            /\ fs' = fs
            /\ ret' = <<"stop", output_filename>>
            /\ hist' = [hist EXCEPT !.prev_stop = hist.last_stop,
                                    !.last_stop = <<output_filename>>]
    /\ pc' = "idle"
    /\ args' = NoArgs
    /\ locals' = NoLocals
    /\ UNCHANGED <<recorderFields, lockVars, audioVars, writers, threads>>
    /\ UNCHANGED <<selectorVars, guiVars>>

\* ---------------------------------------------------------------- _record_video
Tids == 1..Len(threads)

ctlVars == <<pc, args, locals, ret>>

\* the slip of a loop that tests the flag only once, before it starts ("while True")
LoopCheckFlagIgnored(t) ==
    /\ threads[t].pc = "loop"
    /\ hist.iters < MaxIters
    /\ threads' = [threads EXCEPT ![t] = [@ EXCEPT !.pc = "region_lock",
                                                   !.seq = hist.iters + 1]]
    /\ hist' = [hist EXCEPT !.iters = @ + 1]
    /\ UNCHANGED <<recorderFields, lockVars, audioVars, writers, fs, ctlVars>>
    /\ UNCHANGED <<selectorVars, guiVars>>

\* recorder.py:214: while self.recording
LoopCheck(t) ==
    /\ threads[t].pc = "loop"
    /\ recording => hist.iters < MaxIters
    /\ threads' = [threads EXCEPT ![t] = IF recording
                                         THEN [@ EXCEPT !.pc = "region_lock",
                                                        !.seq = hist.iters + 1]
                                         ELSE Parked("done")]
    /\ hist' = [hist EXCEPT !.iters = IF recording THEN @ + 1 ELSE @]
    /\ UNCHANGED <<recorderFields, lockVars, audioVars, writers, fs, ctlVars>>
    /\ UNCHANGED <<selectorVars, guiVars>>

\* recorder.py:218: with self.region_lock
LoopRegionLock(t) ==
    /\ threads[t].pc = "region_lock"
    /\ region_lock = 0
    /\ region_lock' = t
    /\ threads' = [threads EXCEPT ![t].pc = "region"]
    /\ UNCHANGED <<recorderFields, video_writer_lock, audioVars, writers, fs, ctlVars, hist>>
    /\ UNCHANGED <<selectorVars, guiVars>>

\* the slip of a with-block that goes on past the copy (the rest of the iteration
\* indented under line 218)
LoopRegionLockKept(t) ==
    /\ threads[t].pc = "region"
    /\ threads' = [threads EXCEPT ![t].current_region = record_region,
                                  ![t].snap_ver = hist.region_ver,
                                  ![t].snap_ack = hist.acked,
                                  ![t].snap_given = hist.written,
                                  ![t].pc = "size_lock"]
    /\ region_lock' = region_lock
    /\ UNCHANGED <<recorderFields, video_writer_lock, audioVars, writers, fs, ctlVars, hist>>
    /\ UNCHANGED <<selectorVars, guiVars>>

\* recorder.py:219: the copy of the stored region
LoopRegion(t) ==
    /\ threads[t].pc = "region"
    /\ threads' = [threads EXCEPT ![t].current_region = record_region,
                                  ![t].snap_ver = hist.region_ver,
                                  ![t].snap_ack = hist.acked,
                                  ![t].snap_given = hist.written,
                                  ![t].pc = "size_lock"]
    /\ region_lock' = 0
    /\ UNCHANGED <<recorderFields, video_writer_lock, audioVars, writers, fs, ctlVars, hist>>
    /\ UNCHANGED <<selectorVars, guiVars>>

\* recorder.py:222: with self.video_writer_lock
LoopSizeLock(t) ==
    /\ threads[t].pc = "size_lock"
    /\ video_writer_lock = 0
    /\ video_writer_lock' = t
    /\ threads' = [threads EXCEPT ![t].pc = "size"]
    /\ UNCHANGED <<recorderFields, region_lock, audioVars, writers, fs, ctlVars, hist>>
    /\ UNCHANGED <<selectorVars, guiVars>>

\* recorder.py:223-227
LoopSize(t) ==
    /\ threads[t].pc = "size"
    /\ threads' = [threads EXCEPT ![t] = IF threads[t].current_region = None
                                            \/ current_video_size = None
                                         THEN Parked("loop")
                                         ELSE [@ EXCEPT !.target_size = current_video_size,
                                                        !.pc = "grab"]]
    /\ video_writer_lock' = 0
    /\ UNCHANGED <<recorderFields, region_lock, audioVars, writers, fs, ctlVars, hist>>
    /\ UNCHANGED <<selectorVars, guiVars>>

\* recorder.py:239-243: cv2.resize to the target size when the sizes differ
ResizeFrame(size, target_size) == IF size # target_size THEN target_size ELSE size

\* recorder.py:230-243: sct.grab returns the pixels of the region, or raises
LoopGrab(t, grabbed) ==
    /\ threads[t].pc = "grab"
    /\ threads' = IF grabbed
                  THEN [threads EXCEPT
                          ![t].frame = ResizeFrame(RegionSize(threads[t].current_region),
                                                   threads[t].target_size),
                          ![t].pc = "writer_check"]
                  ELSE [threads EXCEPT ![t] = Parked("crashed")]
    /\ UNCHANGED <<recorderFields, lockVars, audioVars, writers, fs, ctlVars, hist>>
    /\ UNCHANGED <<selectorVars, guiVars>>

\* recorder.py:246: if self.video_writer
LoopWriterCheck(t) ==
    /\ threads[t].pc = "writer_check"
    /\ threads' = [threads EXCEPT ![t] = IF video_writer # 0
                                         THEN [@ EXCEPT !.pc = "write"]
                                         ELSE Parked("loop")]
    /\ UNCHANGED <<recorderFields, lockVars, audioVars, writers, fs, ctlVars, hist>>
    /\ UNCHANGED <<selectorVars, guiVars>>

\* recorder.py:247: self.video_writer is read again; None has no write (the
\* AttributeError ends the loop at :255), a released or unopened writer drops the frame
LoopWrite(t) ==
    /\ threads[t].pc = "write"
    /\ IF video_writer = 0
       THEN /\ threads' = [threads EXCEPT ![t] = Parked("crashed")]
            /\ hist' = [hist EXCEPT !.wrote_none = TRUE]
            /\ writers' = writers
       ELSE /\ threads' = [threads EXCEPT ![t] = Parked("loop")]
            /\ hist' = [hist EXCEPT !.wrote_released = @ \/ writers[video_writer].released]
            /\ writers' = IF writers[video_writer].opened /\ ~writers[video_writer].released
                          THEN [writers EXCEPT ![video_writer].frames =
                                  Append(@, [size |-> threads[t].frame, thread |-> t,
                                             seq |-> threads[t].seq])]
                          ELSE writers
    /\ UNCHANGED <<recorderFields, lockVars, audioVars, fs, ctlVars>>
    /\ UNCHANGED <<selectorVars, guiVars>>

\* ---------------------------------------------------------------- RegionSelector
\* region_selector.py:133: the minimum width and height of a selection
MinSize == 50

Abs(n) == IF n < 0 THEN -n ELSE n
Min(a, b) == IF a < b THEN a ELSE b

\* the slip of rejecting only what is too small both ways
TooSmallBoth(width, height) == width < MinSize /\ height < MinSize

\* region_selector.py:133
TooSmall(width, height) == width < MinSize \/ height < MinSize

\* main.py:202-203 and :291-292: RegionSelector() (region_selector.py:6-13), then
\* select_region up to wait_window (:15-72)
SelectRegion ==
    /\ root # "open"
    /\ sel.selections < MaxSelections
    /\ root' = "open"
    /\ start_x' = None
    /\ start_y' = None
    /\ rect_id' = FALSE
    /\ selected_region' = None
    /\ sel' = [NoSel EXCEPT !.selections = sel.selections + 1, !.event = "select"]
    /\ UNCHANGED <<recorderVars, guiVars>>

\* region_selector.py:76-86
OnClick(x, y) ==
    /\ root = "open"
    /\ ~sel.pressed
    /\ start_x' = <<x>>
    /\ start_y' = <<y>>
    /\ sel' = [sel EXCEPT !.pressed = TRUE, !.event = "click"]
    /\ UNCHANGED <<root, rect_id, selected_region>>
    /\ UNCHANGED <<recorderVars, guiVars>>

\* region_selector.py:88-117
OnDrag(x, y) ==
    /\ root = "open"
    /\ sel.pressed
    /\ rect_id' = IF start_x # None /\ start_y # None THEN TRUE ELSE rect_id
    /\ sel' = [sel EXCEPT !.event = "drag"]
    /\ UNCHANGED <<root, start_x, start_y, selected_region>>
    /\ UNCHANGED <<recorderVars, guiVars>>

\* region_selector.py:119-173; a release with no click before it (the button was
\* down when the overlay opened) finds start_x None
OnRelease(x2, y2, offset_x, offset_y) ==
    /\ root = "open"
    /\ sel.pressed \/ start_x = None
    /\ IF start_x # None /\ start_y # None
       THEN LET x1 == start_x[1]
                y1 == start_y[1]
                x == Min(x1, x2)
                y == Min(y1, y2)
                width == Abs(x2 - x1)
                height == Abs(y2 - y1)
            IN  /\ selected_region' = IF TooSmall(width, height)
                                      THEN selected_region
                                      ELSE <<x + offset_x, y + offset_y, width, height>>
                /\ sel' = [sel EXCEPT !.pressed = FALSE,
                                      !.event = "release",
                                      !.drag = <<width, height>>,
                                      !.last = <<x + offset_x, y + offset_y, width, height>>,
                                      !.valid = @ \/ ~TooSmall(width, height)]
       ELSE /\ selected_region' = selected_region
            /\ sel' = [sel EXCEPT !.pressed = FALSE, !.event = "release"]
    /\ UNCHANGED <<root, start_x, start_y, rect_id>>
    /\ UNCHANGED <<recorderVars, guiVars>>

\* region_selector.py:175-178, and the return at :74 when the overlay is destroyed
ConfirmSelection ==
    /\ root = "open"
    /\ IF selected_region # None
       THEN /\ root' = "destroyed"
            /\ sel' = [sel EXCEPT !.event = "confirm", !.returned = <<selected_region>>]
       ELSE /\ root' = root
            /\ sel' = [sel EXCEPT !.event = "confirm"]
    /\ UNCHANGED <<start_x, start_y, rect_id, selected_region>>
    /\ UNCHANGED <<recorderVars, guiVars>>

\* region_selector.py:180-183, and the return at :74
CancelSelection ==
    /\ root = "open"
    /\ selected_region' = None
    /\ root' = "destroyed"
    /\ sel' = [sel EXCEPT !.event = "cancel", !.returned = <<None>>]
    /\ UNCHANGED <<start_x, start_y, rect_id>>
    /\ UNCHANGED <<recorderVars, guiVars>>

NextSelector ==
    \/ SelectRegion
    \/ \E x \in Xs, y \in Ys : OnClick(x, y)
    \/ \E x \in Xs, y \in Ys : OnDrag(x, y)
    \/ \E x \in Xs, y \in Ys, offset_x \in OffsetsX, offset_y \in OffsetsY :
          OnRelease(x, y, offset_x, offset_y)
    \/ ConfirmSelection
    \/ CancelSelection

SpecSelector == Init /\ [][NextSelector]_vars

\* ---------------------------------------------------------------- specification
Next ==
    \/ \E x \in Lefts, y \in Tops, width \in Widths, height \in Heights,
          filename \in Filenames, outcome \in OpenOutcomes :
          StartOpen(x, y, width, height, filename, outcome)
    \/ StartRegion
    \/ StartSize
    \/ StartFlag
    \/ \E outcome \in AudioStartOutcomes : StartAudio(outcome)
    \/ StartThread
    \/ \E x \in Lefts, y \in Tops, width \in Widths, height \in Heights :
          UpdateCheck(x, y, width, height)
    \/ UpdateRegion
    \/ UpdateSize
    \/ GetRegion
    \/ StopFlag
    \/ StopJoined
    \/ StopJoinTimeout
    \/ StopAudioFlag
    \/ \E saved \in BOOLEAN : StopAudio(saved)
    \/ StopRelease
    \/ StopClear
    \/ \E outcome \in CombineOutcomes : StopMux(outcome)
    \/ AudioCallback
    \/ \E t \in Tids : LoopCheck(t)
    \/ \E t \in Tids : LoopRegionLock(t)
    \/ \E t \in Tids : LoopRegion(t)
    \/ \E t \in Tids : LoopSizeLock(t)
    \/ \E t \in Tids : LoopSize(t)
    \/ \E t \in Tids, grabbed \in BOOLEAN : LoopGrab(t, grabbed)
    \/ \E t \in Tids : LoopWriterCheck(t)
    \/ \E t \in Tids : LoopWrite(t)

Spec == Init /\ [][Next]_vars

\* one step of capture loop t, whatever its position
LoopStep(t) ==
    /\ t \in Tids
    /\ \/ LoopCheck(t)
       \/ LoopRegionLock(t)
       \/ LoopRegion(t)
       \/ LoopSizeLock(t)
       \/ LoopSize(t)
       \/ \E grabbed \in BOOLEAN : LoopGrab(t, grabbed)
       \/ LoopWriterCheck(t)
       \/ LoopWrite(t)

\* the capture loops are daemon threads of the interpreter (recorder.py:106-108):
\* each one that can take a step is scheduled in the end, and its grab, resize
\* and write return. Nothing is assumed about the control thread,
\* and nothing about the audio component, which the loops never look at: the
\* recorder here is the one built without a loopback device (recorder.py:61-65)
InitVideoOnly == Init /\ ~audio_recorder

NextVideoOnly ==
    \/ \E x \in Lefts, y \in Tops, width \in Widths, height \in Heights,
          filename \in Filenames, outcome \in OpenOutcomes :
          StartOpen(x, y, width, height, filename, outcome)
    \/ StartRegion
    \/ StartSize
    \/ StartFlag
    \/ \E outcome \in AudioStartOutcomes : StartAudio(outcome)
    \/ StartThread
    \/ \E x \in Lefts, y \in Tops, width \in Widths, height \in Heights :
          UpdateCheck(x, y, width, height)
    \/ UpdateRegion
    \/ UpdateSize
    \/ GetRegion
    \/ StopFlag
    \/ StopJoined
    \/ StopJoinTimeout
    \/ StopAudioFlag
    \/ StopRelease
    \/ StopClear
    \/ \E outcome \in CombineOutcomes : StopMux(outcome)
    \/ \E t \in Tids : LoopCheck(t)
    \/ \E t \in Tids : LoopRegionLock(t)
    \/ \E t \in Tids : LoopRegion(t)
    \/ \E t \in Tids : LoopSizeLock(t)
    \/ \E t \in Tids : LoopSize(t)
    \/ \E t \in Tids, grabbed \in BOOLEAN : LoopGrab(t, grabbed)
    \/ \E t \in Tids : LoopWriterCheck(t)
    \/ \E t \in Tids : LoopWrite(t)

SpecLoopFair ==
    InitVideoOnly /\ [][NextVideoOnly]_vars /\ \A t \in 1..MaxStarts : WF_vars(LoopStep(t))

\* ---------------------------------------------------------------- claims
Returned(method) == pc = "idle" /\ ret[1] = method

InStart == pc \in {"start_region", "start_size", "start_flag", "start_audio", "start_thread"}

IsAudioFile(f) == f[1] = "tmp"

\* the convention <name>_final.<ext> of the muxed file
FinalConvention(f) == SubSeq(f, 1, Len(f) - 1) \o <<"_final", f[Len(f)]>>

\* C1: while a session is Recording (outside a start_recording call), the target
\* frame size is the size of the region the last successful start_recording was
\* given, whatever regions update_recording_region has stored since
C1_TargetSizeFixed ==
    (recording /\ hist.session # <<>> /\ ~InStart)
        => current_video_size = RegionSize(hist.session[1])

\* an update to a region of another size has returned True and the target size is still the session's
C1_Witness ==
    /\ Returned("update")
    /\ ret[2]
    /\ recording
    /\ RegionSize(record_region) # RegionSize(hist.session[1])
    /\ current_video_size = RegionSize(hist.session[1])

\* C2: update_recording_region goes on only when the session is Recording; called
\* while Idle it returns False and the stored fields are what they were
C2_UpdateWhileIdle ==
    /\ pc \in {"update_region", "update_size"} => hist.before[1]
    /\ (Returned("update") /\ ~hist.before[1])
          => (~ret[2] /\ StoredFields = hist.before)

\* an update was refused after a session had been recorded and stopped
C2_Witness ==
    /\ Returned("update")
    /\ ~ret[2]
    /\ hist.session # <<>>
    /\ record_region # None
    /\ video_writer = 0

\* C3: a start_recording that returns False because the writer did not open
\* leaves the stored fields as they were, spawns no loop and starts no audio
C3_FailedStartChangesNothing ==
    (Returned("start") /\ ~ret[2])
        => /\ StoredFields = hist.before
           /\ hist.spawned = 0
           /\ hist.audio_started = ""

\* C4: stop_recording called while Idle returns what the stop_recording before
\* it returned (None when there was none) and changes no field and no file
C4_IdleStopNoSideEffects ==
    (Returned("stop") /\ ~hist.before[1])
        => /\ ret[2] = (IF hist.prev_stop = <<>> THEN None ELSE hist.prev_stop[1])
           /\ StoredFields = hist.before
           /\ fs = hist.fs_before
           /\ hist.mux = ""

\* C5: without a loopback device at construction audio_type is "none", audio
\* capture never starts, no audio file appears, no mux is attempted and
\* stop_recording returns the path the latest start_recording was given
C5_NoDeviceVideoOnly ==
    ~hist.device
        => /\ audio_type = "none"
           /\ ~audio_recording
           /\ stream # "started"
           /\ hist.audio_starts = 0
           /\ \A f \in fs : ~IsAudioFile(f)
           /\ hist.mux = ""
           /\ (Returned("stop") /\ hist.given # None) => ret[2] = hist.given

\* a session without a device was recorded and stopped
C5_Witness ==
    /\ ~hist.device
    /\ Returned("stop")
    /\ hist.session # <<>>
    /\ ret[2] = hist.session[2]
    /\ ret[2] \in fs

\* C6: when the mux fails stop_recording returns the video-only path and has
\* removed no file: the video-only file and the audio file are still there
C6_MuxFailureKeepsFiles ==
    (Returned("stop") /\ hist.mux = "failed")
        => /\ ret[2] = output_filename
           /\ ret[2] = hist.given
           /\ hist.removed = {}
           /\ audio_file \in fs
           /\ output_filename \in hist.fs_before => output_filename \in fs

\* the mux of a recorded session failed with both intermediates on disk
C6_Witness ==
    /\ Returned("stop")
    /\ hist.mux = "failed"
    /\ output_filename \in fs
    /\ audio_file \in fs

\* C7: when the mux succeeds the video-only file and the audio file are gone
\* and stop_recording returns <name>_final.<ext>; files are removed in no other case
C7_MuxSuccessCleansUp ==
    /\ (Returned("stop") /\ hist.mux = "ok")
          => /\ ret[2] = FinalConvention(output_filename)
             /\ output_filename \notin fs
             /\ audio_file \notin fs
    /\ (Returned("stop") /\ hist.mux # "ok") => hist.removed = {}

\* C8: start_recording returns True exactly when its writer opened, and then
\* the session is Recording and one capture loop was spawned, whether audio
\* started, failed to start or is absent
C8_AudioFailureNotFatal ==
    Returned("start")
        => /\ ret[2] = (hist.opened = "opened")
           /\ ret[2] => /\ recording
                        /\ hist.spawned = 1
                        /\ video_thread = Len(threads)
                        /\ hist.audio_started \in {"started", "failed", "absent"}

\* start_recording returned True although the audio recorder failed to start
C8_Witness ==
    /\ Returned("start")
    /\ ret[2]
    /\ hist.audio_started = "failed"
    /\ ~audio_recording
    /\ recording
    /\ Alive(video_thread)

\* C9: every frame in a writer has the size the writer was opened with
C9_FramesHaveStreamSize ==
    \A w \in 1..Len(writers) :
        \A i \in 1..Len(writers[w].frames) :
            writers[w].frames[i].size = writers[w].size

\* C10: the stored region and every snapshot of it (get_current_region, a
\* capture loop iteration) is the region given to one start_recording or
\* update_recording_region call, whole, and that call is not older than the
\* last call that had returned True when the snapshot was taken
C10_RegionLastWriterWins ==
    /\ IF hist.region_ver = 0 THEN record_region = None
       ELSE record_region = hist.written
    /\ hist.region_ver >= hist.acked
    /\ \A t \in Tids :
          threads[t].current_region # None
              => /\ threads[t].snap_ver >= 1
                 /\ threads[t].current_region = threads[t].snap_given
                 /\ threads[t].snap_ver >= threads[t].snap_ack
    /\ Returned("get")
          => /\ IF ret[3] = 0 THEN ret[2] = None ELSE ret[2] = ret[5]
             /\ ret[3] >= ret[4]

\* a capture loop iteration took its snapshot after an update to another region had returned True
C10_Witness ==
    \E t \in Tids :
        /\ threads[t].snap_ver > 1
        /\ threads[t].snap_ack = threads[t].snap_ver
        /\ threads[t].current_region # hist.session[1]
        /\ threads[t].current_region = record_region
        /\ Returned("update")
        /\ ret[2]

\* C11: when WindowsAudioLoopback.start_recording fails to open the input stream
\* (no device found, no input channels, or an exception while creating or starting
\* the stream) it returns False and the recording flag is false afterwards
OpenFailures == {"no_device", "no_channels", "create_error", "start_error"}

C11_FailedAudioStartIsIdle ==
    hist.audio_outcome \in OpenFailures
        => /\ hist.audio_started = "failed"
           /\ ~AudioStartResult(hist.audio_outcome)
           /\ ~audio_recording

C11_Witness ==
    /\ pc = "start_thread"
    /\ hist.audio_outcome = "start_error"
    /\ stream = "created"
    /\ ~audio_recording

IsPrefix(s, t) == Len(s) <= Len(t) /\ SubSeq(t, 1, Len(s)) = s

\* the audio component has been stopped (the flag falls only in stop_recording or
\* in a start that failed after clearing the buffer) and no stop is in progress
AudioIdleAfterStop ==
    ~audio_recording /\ hist.audio_starts > 0 /\ pc # "stop_audio_close"

C12_Step ==
    /\ (audio_recording /\ audio_recording') => IsPrefix(audio_data, audio_data')
    /\ ~audio_recording => (audio_data' = audio_data \/ audio_data' = <<>>)
    /\ (audio_recording /\ ~audio_recording') => audio_data' = audio_data
    /\ (~audio_recording /\ audio_recording') => audio_data' = <<>>
    /\ (pc = "stop_audio_close" /\ pc' # pc)
          => /\ audio_data' = audio_data
             /\ locals'.audio_file # None
                   => locals'.audio_file = audio_file /\ audio_file \in fs'
             /\ (audio_data # <<>> /\ locals'.audio_file = None) => audio_file \notin fs' \ fs
    /\ \A i, j \in 1..Len(audio_data') : i < j => audio_data'[i] < audio_data'[j]

C13_Step ==
    /\ (sel'.event = "release" /\ sel' # sel /\ start_x # None /\ start_y # None
        /\ (sel'.drag[1] < MinSize \/ sel'.drag[2] < MinSize))
          => selected_region' = selected_region
    /\ (root = "open" /\ root' = "destroyed" /\ sel'.event = "confirm")
          => /\ sel.valid
             /\ selected_region # None
             /\ sel'.returned = <<selected_region>>
    /\ (root = "open" /\ sel' # sel /\ sel'.event = "cancel")
          => /\ root' = "destroyed"
             /\ sel'.returned = <<None>>

C13_Returned ==
    (sel.returned # <<>> /\ sel.returned # <<None>>)
        => /\ sel.returned[1][3] >= MinSize
           /\ sel.returned[1][4] >= MinSize

\* C13: a release whose drag is narrower or lower than 50 stores no region; ENTER
\* destroys the overlay only when a release of this selection has stored a region,
\* and select_region then returns it; ESC always destroys the overlay and makes
\* select_region return None; so every region select_region returns is at least
\* 50 wide and 50 high
C13_SelectorMinimumSize == [][C13_Step]_vars /\ []C13_Returned

C13_Witness ==
    /\ sel.event = "confirm"
    /\ root = "destroyed"
    /\ sel.returned # <<None>>
    /\ sel.returned[1][3] = MinSize
    /\ sel.returned[1][1] < 0

AliveLoops == {t \in Tids : Alive(t)}

\* C14: the frames of a video stream are appended in capture order, and at every
\* moment at most one capture loop is alive, whatever start, update and stop calls
\* were made
C14_SingleWriterInOrder ==
    /\ Cardinality(AliveLoops) <= 1
    /\ \A w \in 1..Len(writers) :
          \A i, j \in 1..Len(writers[w].frames) :
             i < j => writers[w].frames[i].seq < writers[w].frames[j].seq

Capturing(t) == threads[t].pc \in {"grab", "writer_check", "write"}

\* C15: a capture loop holds region_lock only for the copy of the stored region and
\* video_writer_lock only for the copy of the target size: it holds neither during a
\* grab, resize or write, never both at once, and a held lock always belongs to a loop
\* whose next step releases it, so a control thread waiting for a lock does not wait
\* for a capture and no loop waits for one lock while holding the other
C15_LocksOnlyAroundCopies ==
    /\ region_lock \in {0} \cup Tids
    /\ video_writer_lock \in {0} \cup Tids
    /\ \A t \in Tids :
          /\ ~(region_lock = t /\ video_writer_lock = t)
          /\ region_lock = t => threads[t].pc = "region"
          /\ video_writer_lock = t => threads[t].pc = "size"
          /\ Capturing(t) => region_lock # t /\ video_writer_lock # t

C15_Witness ==
    /\ pc = "update_region"
    /\ region_lock = 0
    /\ video_writer_lock = 0
    /\ \E t \in Tids : threads[t].pc = "write"

C16_Step ==
    \A t \in Tids :
       /\ (threads[t].pc = "loop" /\ threads'[t] # threads[t])
             => threads'[t].pc = IF recording THEN "region_lock" ELSE "done"
       /\ \A w \in 1..Len(writers) :
             (/\ writers'[w].frames # writers[w].frames
              /\ writers'[w].frames[Len(writers'[w].frames)].thread = t)
                => /\ writers'[w].frames = Append(writers[w].frames,
                                                  [size |-> threads[t].frame, thread |-> t,
                                                   seq |-> threads[t].seq])
                   /\ threads[t].pc = "write"
                   /\ threads'[t].pc = "loop"

StopPositions ==
    <<"stop_join", "stop_audio", "stop_audio_close", "stop_release", "stop_clear", "stop_mux">>

\* how far stop_recording has got; 0 for a position outside it
StopRank(position) ==
    IF \E i \in 1..Len(StopPositions) : StopPositions[i] = position
    THEN CHOOSE i \in 1..Len(StopPositions) : StopPositions[i] = position
    ELSE 0

StopStep ==
    \/ StopJoined
    \/ StopJoinTimeout
    \/ StopAudioFlag
    \/ \E saved \in BOOLEAN : StopAudio(saved)
    \/ StopRelease
    \/ StopClear
    \/ \E outcome \in CombineOutcomes : StopMux(outcome)

C17_Returned ==
    Returned("stop")
        => /\ ~recording
           /\ video_writer = 0
           /\ ret[2] \in {output_filename, ReplaceMp4(output_filename)}

\* C17: stop_recording always returns: at each of its positions its next step can
\* be taken whatever the capture loops are doing (the join gives up on a loop that
\* is still alive), each step takes it further, and when it has returned the session
\* is Idle, video_writer is None and the value is the output path or the muxed path
C17_StopAlwaysReturns ==
    /\ [](StopRank(pc) > 0 => ENABLED StopStep)
    /\ [][StopRank(pc) > 0 /\ pc' # pc
            => pc' = "idle" \/ StopRank(pc') > StopRank(pc)]_vars
    /\ []C17_Returned

C17_Witness ==
    /\ Returned("stop")
    /\ hist.join_timeout
    /\ Alive(video_thread)
    /\ ~recording
    /\ video_writer = 0
    /\ ret[2] # None

\* C18: video_writer.write is never executed on a writer that stop_recording has
\* released, nor on the None it leaves in video_writer
C18_NoWriteAfterRelease == ~hist.wrote_released /\ ~hist.wrote_none

\* C19: a start_recording call made while the session is Recording spawns no capture
\* loop, leaves the open video stream handle in place unless it released it, and
\* leaves the target frame size as it was
C19_StartWhileRecordingRefused ==
    (/\ pc = "idle"
     /\ ret[1] = "start"
     /\ hist.before # <<>>
     /\ hist.before[1])
        => /\ hist.spawned = 0
           /\ video_writer # hist.before[2] => writers[hist.before[2]].released
           /\ current_video_size = hist.before[5]

\* C20: whenever the session is Recording, from the True return of start_recording
\* to the next stop_recording, the capture loop of the session is alive, and no
\* capture loop has ended (by an exception in the grab, the conversion or the write)
\* while the recording flag is true
C20_LoopAliveWhileRecording ==
    (recording /\ pc = "idle" /\ hist.session # <<>>)
        => /\ Alive(video_thread)
           /\ \A t \in Tids : threads[t].pc # "crashed"

\* C21: the value returned by a stop_recording that ended a Recording session (the
\* last start_recording opened its writer) names a file that exists after the call;
\* after a successful mux it is not the video-only path, which the clean-up removes,
\* whatever filename start_recording was given
C21_ReturnedPathExists ==
    (Returned("stop") /\ hist.before[1] /\ hist.opened = "opened")
        => /\ ret[2] # None
           /\ ret[2] \in fs
           /\ hist.mux = "ok" => ret[2] # output_filename

\* the ScreenRecorder session is Idle and no call is in progress
SessionIdle == ~recording /\ pc = "idle"

\* C22: whenever the ScreenRecorder session is Idle (initially, after a start_recording
\* that returned False, after a stop_recording that returned) the recording flag of
\* the audio component is false and it holds no open stream
C22_AudioIdleWhenSessionIdle ==
    SessionIdle => ~audio_recording /\ stream = "none"

\* C23: the region select_region returns after ENTER is the rectangle of the most
\* recent release; in particular not the region of an earlier drag when the most
\* recent drag was rejected as too small
C23_ConfirmReturnsLastDrag ==
    (sel.event = "confirm" /\ root = "destroyed") => sel.returned = <<sel.last>>


\* C24: the audio status label of the GUI shows audio as available exactly when the
\* recorder has a usable audio recorder (audio_type is not "none"), and shows
\* "Audio: Disabled" exactly when audio_type is "none"
C24_LabelMatchesAudioType ==
    /\ audio_status_label = "Audio: Available (System/Microphone)" <=> audio_type # "none"
    /\ audio_status_label = "Audio: Disabled" <=> audio_type = "none"

====
